---- MODULE Spec2Model ----
(***************************************************************************)
(* A model of the Zarr-v3 store adapter of src/src/zarr.rs: the key codec  *)
(* (Key::parse / Key::to_string), the metadata bridge (the serde           *)
(* conversions between the JSON wire form and the structured metadata) and *)
(* the Store facade (get / exists / set / delete) over a dataset engine.   *)
(*                                                                         *)
(* Strings are sequences of one-character strings, so that prefix, suffix, *)
(* split and integer parsing are computed character by character as the    *)
(* code computes them.                                                     *)
(***************************************************************************)
EXTENDS Integers, Sequences, FiniteSets, TLC

VARIABLES
    nodes,      \* Dataset: node path -> node record (kind, attributes, metadata)
    chunks,     \* Dataset: <<node path, coords>> -> chunk payload (inline or ref)
    storage,    \* Storage: the chunk objects written so far, by identifier
    last,       \* the Store operation that ran last, its inputs and its result
    codec,      \* the conversion round trip computed last (CodecSpec, BridgeSpec)
    batch       \* the get_partial_values call in flight and its tasks (BatchSpec)

vars == <<nodes, chunks, storage, last, codec, batch>>

(***************************************************************************)
(* Bounds of the model.                                                    *)
(***************************************************************************)
\* largest chunk coordinate the codec is exercised on (two decimal digits)
MaxCoord == 10
\* longest coordinate tuple the codec is exercised on
MaxDims == 2
\* deepest node path (in segments) the codec is exercised on
MaxDepth == 2
\* number of chunk objects the backing storage can take
MaxChunkObjects == 1

\* most requests of one get_partial_values call
MaxRequests == 2

(***************************************************************************)
(* Strings.                                                                *)
(***************************************************************************)
Str_zarr_json == <<"z", "a", "r", "r", ".", "j", "s", "o", "n">>
Str_c == <<"c">>
Str_slash == <<"/">>

DigitChars == <<"0", "1", "2", "3", "4", "5", "6", "7", "8", "9">>

IsDigit(ch) == \E i \in 1..10 : DigitChars[i] = ch

DigitVal(ch) == (CHOOSE i \in 1..10 : DigitChars[i] = ch) - 1

\* str::starts_with
StartsWith(s, p) == Len(p) <= Len(s) /\ SubSeq(s, 1, Len(p)) = p

\* str::ends_with
EndsWith(s, p) == Len(p) <= Len(s) /\ SubSeq(s, Len(s) - Len(p) + 1, Len(s)) = p

\* &s[n..]: the string without its first n characters
DropChars(s, n) == SubSeq(s, n + 1, Len(s))

\* str::trim_start_matches(ch)
RECURSIVE TrimStartMatches(_, _)
TrimStartMatches(s, ch) ==
    IF s # <<>> /\ Head(s) = ch THEN TrimStartMatches(Tail(s), ch) ELSE s

\* the start of the rightmost occurrence of pat in s, 0 when there is none
RFind(s, pat) ==
    LET hits == {i \in 1..(Len(s) - Len(pat) + 1) : SubSeq(s, i, i + Len(pat) - 1) = pat}
    IN  IF hits = {} THEN 0 ELSE CHOOSE i \in hits : \A j \in hits : j <= i

\* str::split(ch): the segments between the occurrences of ch (never empty as a list)
RECURSIVE Split(_, _)
Split(s, ch) ==
    LET hits == {i \in 1..Len(s) : s[i] = ch}
    IN  IF hits = {} THEN <<s>>
        ELSE LET i == CHOOSE k \in hits : \A j \in hits : k <= j
             IN  <<SubSeq(s, 1, i - 1)>> \o Split(SubSeq(s, i + 1, Len(s)), ch)

\* Itertools::join(sep)
RECURSIVE Join(_, _)
Join(parts, sep) ==
    IF parts = <<>> THEN <<>>
    ELSE IF Len(parts) = 1 THEN parts[1]
    ELSE parts[1] \o sep \o Join(Tail(parts), sep)

\* the members of a list that are not the empty string: filter(|s| !s.is_empty())
RECURSIVE NonEmptyParts(_)
NonEmptyParts(parts) ==
    IF parts = <<>> THEN <<>>
    ELSE IF parts[1] = <<>> THEN NonEmptyParts(Tail(parts))
    ELSE <<parts[1]>> \o NonEmptyParts(Tail(parts))

\* the value of a non-empty string of decimal digits
RECURSIVE DigitsValue(_)
DigitsValue(ds) ==
    IF Len(ds) = 1 THEN DigitVal(ds[1])
    ELSE 10 * DigitsValue(SubSeq(ds, 1, Len(ds) - 1)) + DigitVal(ds[Len(ds)])

\* str::parse::<u64>(): an optional leading '+', then one or more decimal digits.
\* (The coordinates of the model stay far below 2^64, where the parse overflows.)
ParseU64(s) ==
    LET ds == IF s # <<>> /\ Head(s) = "+" THEN Tail(s) ELSE s
    IN  IF ds # <<>> /\ \A i \in 1..Len(ds) : IsDigit(ds[i])
        THEN [ok |-> TRUE, val |-> DigitsValue(ds)]
        ELSE [ok |-> FALSE, val |-> 0]

\* u64::to_string(): the decimal numeral without leading zeros
RECURSIVE U64ToString(_)
U64ToString(n) ==
    IF n < 10 THEN <<DigitChars[n + 1]>>
    ELSE U64ToString(n \div 10) \o <<DigitChars[(n % 10) + 1]>>

(***************************************************************************)
(* Paths and keys.  A Path is an absolute path string ("/" is the root);   *)
(* a Key is Metadata{node_path} or Chunk{node_path, coords}.               *)
(***************************************************************************)
\* a byte that is not valid UTF-8: Path::to_str() is None for a path holding it
NonUtf8Byte == "\\xFF"

RootPath == Str_slash

\* Path::to_str(): the path as a string, or None
PathToStr(path) ==
    IF \E i \in 1..Len(path) : path[i] = NonUtf8Byte
    THEN [some |-> FALSE, s |-> <<>>]
    ELSE [some |-> TRUE, s |-> path]

\* ["/", path].iter().collect::<PathBuf>(): push "/" and then path, where pushing an
\* absolute path replaces what was pushed before it
PathFromRootAnd(path) ==
    IF StartsWith(path, Str_slash) THEN path ELSE Str_slash \o path

MetadataKey(path) == [tag |-> "Metadata", node_path |-> path, coords |-> <<>>]

ChunkKey(path, coords) == [tag |-> "Chunk", node_path |-> path, coords |-> coords]

ROOT_KEY == Str_zarr_json

METADATA_SUFFIX == Str_slash \o Str_zarr_json

CHUNK_COORD_INFIX == Str_slash \o Str_c

InvalidKey(key) == [kind |-> "InvalidKey", key |-> key]

ParseOk(k) == [ok |-> TRUE, key |-> k, err |-> [kind |-> "None"]]

ParseErr(e) == [ok |-> FALSE, key |-> MetadataKey(<<>>), err |-> e]

\* the coordinate list of a chunk key: each segment parsed as a u64, all or nothing
ParseCoords(segs) ==
    IF \A i \in 1..Len(segs) : ParseU64(segs[i]).ok
    THEN [ok |-> TRUE, coords |-> [i \in 1..Len(segs) |-> ParseU64(segs[i]).val]]
    ELSE [ok |-> FALSE, coords |-> <<>>]

\* Key::parse's inner parse_chunk
parse_chunk(key) ==
    IF key = Str_c THEN ParseOk(ChunkKey(RootPath, <<>>))
    ELSE LET at == RFind(key, CHUNK_COORD_INFIX)
         IN  IF at = 0 THEN ParseErr(InvalidKey(key))
             ELSE LET path == SubSeq(key, 1, at - 1)
                      coords == SubSeq(key, at + Len(CHUNK_COORD_INFIX), Len(key))
                  IN  IF coords = <<>>
                      THEN ParseOk(ChunkKey(PathFromRootAnd(path), <<>>))
                      ELSE IF ~StartsWith(coords, Str_slash)
                      THEN ParseErr(InvalidKey(key))
                      ELSE LET parsed == ParseCoords(Split(DropChars(coords, 1), "/"))
                           IN  IF parsed.ok
                               THEN ParseOk(ChunkKey(PathFromRootAnd(path), parsed.coords))
                               ELSE ParseErr(InvalidKey(key))

\* Key::parse
KeyParse(key) ==
    IF key = ROOT_KEY THEN ParseOk(MetadataKey(RootPath))
    ELSE IF StartsWith(key, Str_slash) THEN ParseErr(InvalidKey(key))
    ELSE IF EndsWith(key, METADATA_SUFFIX)
    THEN ParseOk(MetadataKey(
             PathFromRootAnd(SubSeq(key, 1, Len(key) - Len(METADATA_SUFFIX)))))
    ELSE parse_chunk(key)

\* Key::to_string: Some(key string), or None for a path that is not UTF-8
KeyToString(k) ==
    LET p == PathToStr(k.node_path)
    IN  IF ~p.some THEN [some |-> FALSE, s |-> <<>>]
        ELSE IF k.tag = "Metadata"
        THEN [some |-> TRUE,
              s |-> TrimStartMatches(DropChars(p.s, 1) \o METADATA_SUFFIX, "/")]
        ELSE LET coords == Join([i \in 1..Len(k.coords) |-> U64ToString(k.coords[i])],
                                Str_slash)
             IN  [some |-> TRUE,
                  s |-> Join(NonEmptyParts(<<DropChars(p.s, 1), Str_c, coords>>),
                             Str_slash)]

(***************************************************************************)
(* JSON values and byte strings.  A Bytes value is either the text of a    *)
(* JSON object (its fields, by name) or raw bytes that are not JSON.       *)
(***************************************************************************)
None == [some |-> FALSE]

Some(x) == [some |-> TRUE, v |-> x]

JNull == [t |-> "null"]

JNum(n) == [t |-> "num", n |-> n]

JStr(s) == [t |-> "str", s |-> s]

JArr(a) == [t |-> "arr", a |-> a]

JObj(o) == [t |-> "obj", o |-> o]

JsonBytes(doc) == [json |-> TRUE, doc |-> doc, raw |-> <<>>]

RawBytes(raw) == [json |-> FALSE, doc |-> <<>>, raw |-> raw]

Has(doc, field) == field \in DOMAIN doc

IsNum(j) == j.t = "num"

IsStr(j) == j.t = "str"

IsObj(j) == j.t = "obj"

IsArr(j) == j.t = "arr"

\* a name/configuration envelope: NameConfigSerializer
NameConfig(name, configuration) == [name |-> name, configuration |-> configuration]

\* Deserialize for NameConfigSerializer: an object with a string "name" and a
\* "configuration" of any JSON type
IsNameConfigJson(j) ==
    /\ IsObj(j)
    /\ Has(j.o, "name") /\ IsStr(j.o["name"])
    /\ Has(j.o, "configuration")

NameConfigOfJson(j) == NameConfig(j.o["name"].s, j.o["configuration"])

JsonOfNameConfig(nc) ==
    JObj([name |-> JStr(nc.name), configuration |-> nc.configuration])

\* From<ChunkShape> for NameConfigSerializer
NameConfigFromChunkShape(chunk_shape) ==
    NameConfig("regular",
        JObj([chunk_shape |-> JArr([i \in 1..Len(chunk_shape) |-> JNum(chunk_shape[i])])]))

\* TryFrom<NameConfigSerializer> for ChunkShape: name "regular", an object holding an
\* array "chunk_shape" of non-zero u64
ChunkShapeFromNameConfig(nc) ==
    IF /\ nc.name = "regular"
       /\ IsObj(nc.configuration)
       /\ Has(nc.configuration.o, "chunk_shape")
       /\ IsArr(nc.configuration.o["chunk_shape"])
       /\ LET values == nc.configuration.o["chunk_shape"].a
          IN  \A i \in 1..Len(values) : IsNum(values[i]) /\ values[i].n >= 1
    THEN LET values == nc.configuration.o["chunk_shape"].a
         IN  [ok |-> TRUE, v |-> [i \in 1..Len(values) |-> values[i].n]]
    ELSE [ok |-> FALSE, v |-> <<>>]

\* From<ChunkKeyEncoding> for NameConfigSerializer: the value is ignored
NameConfigFromChunkKeyEncoding(chunk_key_encoding) ==
    NameConfig("default", JObj([separator |-> JStr("/")]))

\* TryFrom<NameConfigSerializer> for ChunkKeyEncoding: name "default", separator "/"
ChunkKeyEncodingFromNameConfig(nc) ==
    IF /\ nc.name = "default"
       /\ IsObj(nc.configuration)
       /\ Has(nc.configuration.o, "separator")
       /\ nc.configuration.o["separator"] = JStr("/")
    THEN [ok |-> TRUE, v |-> "Slash"]
    ELSE [ok |-> FALSE, v |-> "Slash"]

\* FillValue::from_data_type_and_json: the JSON value read under the data type
FillValueFromDataTypeAndJson(data_type, j) ==
    IF data_type \in {"int32", "int64", "uint8"} /\ IsNum(j)
    THEN [ok |-> TRUE, v |-> [type |-> data_type, n |-> j.n]]
    ELSE [ok |-> FALSE, v |-> [type |-> data_type, n |-> 0]]

\* Serialize for FillValue
JsonOfFillValue(fill_value) == JNum(fill_value.n)

DataTypes == {"int32", "int64", "uint8"}

\* Option<T> on the wire: a missing field and null are both None
OptionalField(doc, field) ==
    IF Has(doc, field) /\ doc[field] # JNull THEN Some(doc[field]) ELSE None

JsonOfOption(opt) == IF opt.some THEN opt.v ELSE JNull

\* the fields GroupMetadata and ArrayMetadata share: zarr_format: u8 and
\* node_type: String are required, attributes: Option<UserAttributes>
HasEnvelopeFields(doc) ==
    /\ Has(doc, "zarr_format") /\ IsNum(doc["zarr_format"])
    /\ doc["zarr_format"].n \in 0..255
    /\ Has(doc, "node_type") /\ IsStr(doc["node_type"])
    /\ Has(doc, "attributes") => (doc["attributes"] = JNull \/ IsObj(doc["attributes"]))

\* serde_json::from_slice::<GroupMetadata>: fields it does not know are ignored
DeserializeGroupMetadata(value) ==
    IF value.json /\ HasEnvelopeFields(value.doc)
    THEN [ok |-> TRUE,
          v |-> [zarr_format |-> value.doc["zarr_format"].n,
                 node_type |-> value.doc["node_type"].s,
                 attributes |-> OptionalField(value.doc, "attributes")]]
    ELSE [ok |-> FALSE, v |-> <<>>]

\* Deserialize for ZarrArrayMetadataSerialzer: the required fields with their types,
\* chunk_grid and chunk_key_encoding through their envelopes
HasArrayFields(doc) ==
    /\ Has(doc, "shape") /\ IsArr(doc["shape"])
    /\ \A i \in 1..Len(doc["shape"].a) : IsNum(doc["shape"].a[i])
    /\ Has(doc, "data_type") /\ IsStr(doc["data_type"])
    /\ doc["data_type"].s \in DataTypes
    /\ Has(doc, "chunk_grid") /\ IsNameConfigJson(doc["chunk_grid"])
    /\ ChunkShapeFromNameConfig(NameConfigOfJson(doc["chunk_grid"])).ok
    /\ Has(doc, "chunk_key_encoding") /\ IsNameConfigJson(doc["chunk_key_encoding"])
    /\ ChunkKeyEncodingFromNameConfig(NameConfigOfJson(doc["chunk_key_encoding"])).ok
    /\ Has(doc, "fill_value")
    /\ Has(doc, "codecs") /\ IsArr(doc["codecs"])

\* TryFrom<ZarrArrayMetadataSerialzer> for ZarrArrayMetadata: the fill value is
\* converted under the data type, and the conversion's failure fails the whole
ZarrArrayMetadataFromSerializer(doc) ==
    LET fill == FillValueFromDataTypeAndJson(doc["data_type"].s, doc["fill_value"])
    IN  IF fill.ok
        THEN [ok |-> TRUE,
              v |-> [shape |-> [i \in 1..Len(doc["shape"].a) |-> doc["shape"].a[i].n],
                     data_type |-> doc["data_type"].s,
                     chunk_shape |->
                         ChunkShapeFromNameConfig(NameConfigOfJson(doc["chunk_grid"])).v,
                     chunk_key_encoding |->
                         ChunkKeyEncodingFromNameConfig(
                             NameConfigOfJson(doc["chunk_key_encoding"])).v,
                     fill_value |-> fill.v,
                     codecs |-> doc["codecs"].a,
                     storage_transformers |-> OptionalField(doc, "storage_transformers"),
                     dimension_names |-> OptionalField(doc, "dimension_names")]]
        ELSE [ok |-> FALSE, v |-> <<>>]

\* serde_json::from_slice::<ArrayMetadata>: node_type is read as a String and not
\* compared with "array"
DeserializeArrayMetadata(value) ==
    IF value.json /\ HasEnvelopeFields(value.doc) /\ HasArrayFields(value.doc)
       /\ ZarrArrayMetadataFromSerializer(value.doc).ok
    THEN [ok |-> TRUE,
          v |-> [zarr_format |-> value.doc["zarr_format"].n,
                 node_type |-> value.doc["node_type"].s,
                 attributes |-> OptionalField(value.doc, "attributes"),
                 zarr_metadata |-> ZarrArrayMetadataFromSerializer(value.doc).v]]
    ELSE [ok |-> FALSE, v |-> <<>>]

\* GroupMetadata::new(attributes).to_bytes()
GroupMetadataToBytes(attributes) ==
    JsonBytes([zarr_format |-> JNum(3),
               node_type |-> JStr("group"),
               attributes |-> JsonOfOption(attributes)])

\* ArrayMetadata::new(attributes, zarr_metadata).to_bytes(), the array fields
\* flattened into the object through From<ZarrArrayMetadata>
ArrayMetadataToBytes(attributes, m) ==
    JsonBytes([zarr_format |-> JNum(3),
               node_type |-> JStr("array"),
               attributes |-> JsonOfOption(attributes),
               shape |-> JArr([i \in 1..Len(m.shape) |-> JNum(m.shape[i])]),
               data_type |-> JStr(m.data_type),
               chunk_grid |-> JsonOfNameConfig(NameConfigFromChunkShape(m.chunk_shape)),
               chunk_key_encoding |->
                   JsonOfNameConfig(NameConfigFromChunkKeyEncoding(m.chunk_key_encoding)),
               fill_value |-> JsonOfFillValue(m.fill_value),
               codecs |-> JArr(m.codecs),
               storage_transformers |-> JsonOfOption(m.storage_transformers),
               dimension_names |-> JsonOfOption(m.dimension_names)])

(***************************************************************************)
(* The dataset engine.  A dataset ds is [nodes, chunks, storage]; every    *)
(* mutation returns [ok, ds, err], with ds unchanged when it fails.        *)
(***************************************************************************)
\* DatasetConfig::inline_chunk_threshold_bytes, in bytes
InlineThreshold == 2

GroupNode == [kind |-> "Group"]

ArrayNode(zarr_metadata) == [kind |-> "Array", zarr_metadata |-> zarr_metadata]

\* UserAttributesStructure::Inline
InlineAttributes(atts) == [kind |-> "Inline", atts |-> atts]

DsOk(ds) == [ok |-> TRUE, ds |-> ds, err |-> "None"]

DsErr(ds, err) == [ok |-> FALSE, ds |-> ds, err |-> err]

WithoutKey(f, k) == [x \in DOMAIN f \ {k} |-> f[x]]

WithKey(f, k, v) == [x \in DOMAIN f \cup {k} |-> IF x = k THEN v ELSE f[x]]

\* Dataset::get_node
get_node(ds, path) ==
    IF path \in DOMAIN ds.nodes
    THEN [ok |-> TRUE, node |-> ds.nodes[path]]
    ELSE [ok |-> FALSE, node |-> <<>>]

\* Dataset::get_array: the node at the path, when it is an array
get_array(ds, path) ==
    IF path \in DOMAIN ds.nodes /\ ds.nodes[path].node_data.kind = "Array"
    THEN [ok |-> TRUE, node |-> ds.nodes[path]]
    ELSE [ok |-> FALSE, node |-> <<>>]

\* Dataset::get_group: the node at the path, when it is a group
get_group(ds, path) ==
    IF path \in DOMAIN ds.nodes /\ ds.nodes[path].node_data.kind = "Group"
    THEN [ok |-> TRUE, node |-> ds.nodes[path]]
    ELSE [ok |-> FALSE, node |-> <<>>]

\* Dataset::add_group: rejected when a node of either kind is at the path
add_group(ds, path) ==
    IF get_node(ds, path).ok THEN DsErr(ds, "AlreadyExists")
    ELSE DsOk([ds EXCEPT !.nodes =
             WithKey(@, path, [node_data |-> GroupNode, user_attributes |-> None])])

\* Dataset::add_array: rejected when a node of either kind is at the path
add_array(ds, path, zarr_metadata) ==
    IF get_node(ds, path).ok THEN DsErr(ds, "AlreadyExists")
    ELSE DsOk([ds EXCEPT !.nodes =
             WithKey(@, path, [node_data |-> ArrayNode(zarr_metadata),
                               user_attributes |-> None])])

\* Dataset::update_array: the array's metadata replaced, its chunks kept
update_array(ds, path, zarr_metadata) ==
    IF ~get_array(ds, path).ok THEN DsErr(ds, "NotFound")
    ELSE DsOk([ds EXCEPT !.nodes[path].node_data = ArrayNode(zarr_metadata)])

\* Dataset::set_user_attributes: Option<UserAttributes> on an existing node
set_user_attributes(ds, path, atts) ==
    IF ~get_node(ds, path).ok THEN DsErr(ds, "NotFound")
    ELSE DsOk([ds EXCEPT !.nodes[path].user_attributes =
             IF atts.some THEN Some(InlineAttributes(atts.v)) ELSE None])

\* Dataset::delete_group
delete_group(ds, path) ==
    IF ~get_group(ds, path).ok THEN DsErr(ds, "NotFound")
    ELSE DsOk([ds EXCEPT !.nodes = WithoutKey(@, path)])

\* Dataset::delete_array: the node goes, and the chunks it holds with it
delete_array(ds, path) ==
    IF ~get_array(ds, path).ok THEN DsErr(ds, "NotFound")
    ELSE DsOk([ds EXCEPT
             !.nodes = WithoutKey(@, path),
             !.chunks = [c \in {d \in DOMAIN @ : d[1] # path} |-> @[c]]])

\* Dataset::set_chunk_ref: Some(payload) sets the chunk, None removes it; the coords
\* are not compared with the array's grid
set_chunk_ref(ds, path, coords, payload) ==
    IF ~get_array(ds, path).ok THEN DsErr(ds, "NotFound")
    ELSE IF payload.some
    THEN DsOk([ds EXCEPT !.chunks = WithKey(@, <<path, coords>>, payload.v)])
    ELSE DsOk([ds EXCEPT !.chunks = WithoutKey(@, <<path, coords>>)])

\* Dataset::set_chunk: a value below the threshold is kept inline in the chunk
\* reference, any other is written to the storage under a new identifier
set_chunk(ds, path, coords, value) ==
    IF ~get_array(ds, path).ok THEN DsErr(ds, "NotFound")
    ELSE IF Len(value.raw) < InlineThreshold
    THEN set_chunk_ref(ds, path, coords, Some([kind |-> "Inline", bytes |-> value]))
    ELSE set_chunk_ref([ds EXCEPT !.storage = Append(@, value)], path, coords,
                       Some([kind |-> "Ref", id |-> Len(ds.storage) + 1]))

\* Dataset::get_chunk: Ok(None) for a chunk that is not there, Ok(Some(bytes)) from
\* the inline payload or from the storage object the reference names
get_chunk(ds, path, coords) ==
    IF ~get_array(ds, path).ok THEN [ok |-> FALSE, chunk |-> None, err |-> "NotFound"]
    ELSE IF <<path, coords>> \notin DOMAIN ds.chunks
    THEN [ok |-> TRUE, chunk |-> None, err |-> "None"]
    ELSE LET payload == ds.chunks[<<path, coords>>]
         IN  [ok |-> TRUE,
              chunk |-> Some(IF payload.kind = "Inline" THEN payload.bytes
                             ELSE ds.storage[payload.id]),
              err |-> "None"]

\* Dataset::flush, then Dataset::update(storage, oid): the structure written to the
\* storage and read back; the chunk objects stay where they are
flush_and_update(ds) == ds

(***************************************************************************)
(* The Store facade.  A read returns [ok, val, err]; a mutation returns    *)
(* [ok, ds, err], ds being the dataset as the call left it.                *)
(***************************************************************************)
NoError == [kind |-> "None"]

NodeNotFound(path) == [kind |-> "NotFound", which |-> "NodeNotFound", path |-> path]

ChunkNotFound(key, path, coords) ==
    [kind |-> "NotFound", which |-> "ChunkNotFound",
     key |-> key, path |-> path, coords |-> coords]

\* StoreError::CannotUpdate(#[from] DatasetError)
CannotUpdate(cause) == [kind |-> "CannotUpdate", cause |-> cause]

BadMetadata == [kind |-> "BadMetadata"]

\* a todo!() that was reached
Panicked == [kind |-> "Panic"]

ReadOk(val) == [ok |-> TRUE, val |-> val, err |-> NoError]

ReadErr(err) == [ok |-> FALSE, val |-> RawBytes(<<>>), err |-> err]

StoreOk(ds) == [ok |-> TRUE, ds |-> ds, err |-> NoError]

StoreErr(ds, err) == [ok |-> FALSE, ds |-> ds, err |-> err]

\* the ? on a dataset call inside a Store mutation
FromDataset(r) == IF r.ok THEN StoreOk(r.ds) ELSE StoreErr(r.ds, CannotUpdate(r.err))

\* Store::get_chunk
Store_get_chunk(ds, key, path, coords) ==
    LET r == get_chunk(ds, path, coords)
    IN  IF ~r.ok THEN ReadErr(CannotUpdate(r.err))
        ELSE IF r.chunk.some THEN ReadOk(r.chunk.v)
        ELSE ReadErr(ChunkNotFound(key, path, coords))

\* Store::get_metadata
Store_get_metadata(ds, key, path) ==
    LET r == get_node(ds, path)
    IN  IF ~r.ok THEN ReadErr(NodeNotFound(path))
        ELSE IF r.node.user_attributes.some /\ r.node.user_attributes.v.kind = "Ref"
        THEN ReadErr(Panicked)
        ELSE LET user_attributes ==
                     IF r.node.user_attributes.some
                     THEN Some(r.node.user_attributes.v.atts) ELSE None
             IN  IF r.node.node_data.kind = "Group"
                 THEN ReadOk(GroupMetadataToBytes(user_attributes))
                 ELSE ReadOk(ArrayMetadataToBytes(user_attributes,
                                                  r.node.node_data.zarr_metadata))

\* Store::get (the byte range is ignored)
StoreGet(ds, key) ==
    LET k == KeyParse(key)
    IN  IF ~k.ok THEN ReadErr(k.err)
        ELSE IF k.key.tag = "Metadata" THEN Store_get_metadata(ds, key, k.key.node_path)
        ELSE Store_get_chunk(ds, key, k.key.node_path, k.key.coords)

\* Store::exists with every error of get answered as "not there"
StoreExists_ErrorsAreFalse(ds, key) ==
    LET r == StoreGet(ds, key)
    IN  IF r.ok THEN [ok |-> TRUE, val |-> TRUE, err |-> NoError]
        ELSE [ok |-> TRUE, val |-> FALSE, err |-> NoError]

\* Store::exists
StoreExists(ds, key) ==
    LET r == StoreGet(ds, key)
    IN  IF r.ok THEN [ok |-> TRUE, val |-> TRUE, err |-> NoError]
        ELSE IF r.err.kind = "NotFound" THEN [ok |-> TRUE, val |-> FALSE, err |-> NoError]
        ELSE [ok |-> FALSE, val |-> FALSE, err |-> r.err]

\* Store::set_array_meta that, for a path without an array, sets the attributes
\* before it adds the array
set_array_meta_AttributesFirst(ds, path, array_meta) ==
    IF get_array(ds, path).ok
    THEN LET r1 == set_user_attributes(ds, path, array_meta.attributes)
         IN  IF ~r1.ok THEN FromDataset(r1)
             ELSE FromDataset(update_array(r1.ds, path, array_meta.zarr_metadata))
    ELSE LET r1 == set_user_attributes(ds, path, array_meta.attributes)
         IN  IF ~r1.ok THEN FromDataset(r1)
             ELSE FromDataset(add_array(r1.ds, path, array_meta.zarr_metadata))

\* Store::set_array_meta
set_array_meta(ds, path, array_meta) ==
    IF get_array(ds, path).ok
    THEN LET r1 == set_user_attributes(ds, path, array_meta.attributes)
         IN  IF ~r1.ok THEN FromDataset(r1)
             ELSE FromDataset(update_array(r1.ds, path, array_meta.zarr_metadata))
    ELSE LET r1 == add_array(ds, path, array_meta.zarr_metadata)
         IN  IF ~r1.ok THEN FromDataset(r1)
             ELSE FromDataset(set_user_attributes(r1.ds, path, array_meta.attributes))

\* Store::set_group_meta looking the node up with get_node, whatever its kind
set_group_meta_AnyNode(ds, path, group_meta) ==
    IF get_node(ds, path).ok
    THEN FromDataset(set_user_attributes(ds, path, group_meta.attributes))
    ELSE LET r1 == add_group(ds, path)
         IN  IF ~r1.ok THEN FromDataset(r1)
             ELSE FromDataset(set_user_attributes(r1.ds, path, group_meta.attributes))

\* Store::set_group_meta
set_group_meta(ds, path, group_meta) ==
    IF get_group(ds, path).ok
    THEN FromDataset(set_user_attributes(ds, path, group_meta.attributes))
    ELSE LET r1 == add_group(ds, path)
         IN  IF ~r1.ok THEN FromDataset(r1)
             ELSE FromDataset(set_user_attributes(r1.ds, path, group_meta.attributes))

\* Store::set writing every chunk at the empty coordinate tuple
StoreSet_DropsCoords(ds, key, value) ==
    LET k == KeyParse(key)
    IN  IF ~k.ok THEN StoreErr(ds, k.err)
        ELSE IF k.key.tag = "Metadata"
        THEN IF DeserializeArrayMetadata(value).ok
             THEN set_array_meta(ds, k.key.node_path, DeserializeArrayMetadata(value).v)
             ELSE IF DeserializeGroupMetadata(value).ok
             THEN set_group_meta(ds, k.key.node_path, DeserializeGroupMetadata(value).v)
             ELSE StoreErr(ds, BadMetadata)
        ELSE FromDataset(set_chunk(ds, k.key.node_path, <<>>, value))

\* Store::set: a metadata payload is tried as array metadata first, then as group
\* metadata
StoreSet(ds, key, value) ==
    LET k == KeyParse(key)
    IN  IF ~k.ok THEN StoreErr(ds, k.err)
        ELSE IF k.key.tag = "Metadata"
        THEN IF DeserializeArrayMetadata(value).ok
             THEN set_array_meta(ds, k.key.node_path, DeserializeArrayMetadata(value).v)
             ELSE IF DeserializeGroupMetadata(value).ok
             THEN set_group_meta(ds, k.key.node_path, DeserializeGroupMetadata(value).v)
             ELSE StoreErr(ds, BadMetadata)
        ELSE FromDataset(set_chunk(ds, k.key.node_path, k.key.coords, value))

\* Store::delete answering Ok for a metadata key whose node is not there
StoreDelete_MissingNodeOk(ds, key) ==
    LET k == KeyParse(key)
    IN  IF ~k.ok THEN StoreErr(ds, k.err)
        ELSE IF k.key.tag = "Metadata"
        THEN LET node == get_node(ds, k.key.node_path)
             IN  IF ~node.ok THEN StoreOk(ds)
                 ELSE IF node.node.node_data.kind = "Array"
                 THEN FromDataset(delete_array(ds, k.key.node_path))
                 ELSE FromDataset(delete_group(ds, k.key.node_path))
        ELSE FromDataset(set_chunk_ref(ds, k.key.node_path, k.key.coords, None))

\* Store::delete that, for an array, removes the chunks and leaves the node
StoreDelete_KeepsArrayNode(ds, key) ==
    LET k == KeyParse(key)
    IN  IF ~k.ok THEN StoreErr(ds, k.err)
        ELSE IF k.key.tag = "Metadata"
        THEN LET node == get_node(ds, k.key.node_path)
             IN  IF ~node.ok THEN StoreErr(ds, NodeNotFound(k.key.node_path))
                 ELSE IF node.node.node_data.kind = "Array"
                 THEN StoreOk([ds EXCEPT !.chunks =
                          [c \in {d \in DOMAIN @ : d[1] # k.key.node_path} |-> @[c]]])
                 ELSE FromDataset(delete_group(ds, k.key.node_path))
        ELSE FromDataset(set_chunk_ref(ds, k.key.node_path, k.key.coords, None))

\* Store::delete
StoreDelete(ds, key) ==
    LET k == KeyParse(key)
    IN  IF ~k.ok THEN StoreErr(ds, k.err)
        ELSE IF k.key.tag = "Metadata"
        THEN LET node == get_node(ds, k.key.node_path)
             IN  IF ~node.ok THEN StoreErr(ds, NodeNotFound(k.key.node_path))
                 ELSE IF node.node.node_data.kind = "Array"
                 THEN FromDataset(delete_array(ds, k.key.node_path))
                 ELSE FromDataset(delete_group(ds, k.key.node_path))
        ELSE FromDataset(set_chunk_ref(ds, k.key.node_path, k.key.coords, None))

\* StoreError::BadKeyPrefix(String)
BadKeyPrefix(prefix) == [kind |-> "BadKeyPrefix", prefix |-> prefix]

\* StoreError::Unimplemented(&'static str)
Unimplemented(op) == [kind |-> "Unimplemented", op |-> op]

\* StoreError::Unknown(Box<JoinError>)
Unknown == [kind |-> "Unknown"]

\* the sequences that hold every member of a finite set once
Orders(S) ==
    {order \in [1..Cardinality(S) -> S] : \A x \in S : \E i \in 1..Cardinality(S) : order[i] = x}

\* Dataset::list_nodes: the paths of the nodes, in an iteration order the engine
\* does not specify (the set of the orders it may take)
list_nodes(ds) == Orders(DOMAIN ds.nodes)

\* Dataset::all_chunks: the (path, coords) of the chunks that are set, in an order
\* the engine does not specify
all_chunks(ds) == Orders(DOMAIN ds.chunks)

ListOk(keys) == [ok |-> TRUE, val |-> keys, err |-> NoError]

ListErr(err) == [ok |-> FALSE, val |-> <<>>, err |-> err]

\* try_filter_map over the formatted keys: those that are Some and start with the
\* prefix, in the order they come
KeysWithPrefix(formatted, prefix) ==
    LET Keep(k) == k.some /\ StartsWith(k.s, prefix)
        kept == SelectSeq(formatted, Keep)
    IN  [i \in 1..Len(kept) |-> kept[i].s]

\* Store::empty with the groups left out of the count
StoreEmpty_IgnoresGroups(ds, node_order) ==
    [ok |-> TRUE,
     val |-> \A i \in 1..Len(node_order) : ds.nodes[node_order[i]].node_data.kind # "Array",
     err |-> NoError]

\* Store::empty: the node iterator has no first item
StoreEmpty(ds, node_order) == [ok |-> TRUE, val |-> Len(node_order) = 0, err |-> NoError]

\* Store::list_metadata_prefix
list_metadata_prefix(ds, prefix, node_order) ==
    IF EndsWith(prefix, Str_slash)
    THEN ListOk(KeysWithPrefix(
             [i \in 1..Len(node_order) |-> KeyToString(MetadataKey(node_order[i]))],
             SubSeq(prefix, 1, Len(prefix) - 1)))
    ELSE ListErr(BadKeyPrefix(prefix))

\* Store::list_chunks_prefix
list_chunks_prefix(ds, prefix, chunk_order) ==
    IF EndsWith(prefix, Str_slash)
    THEN ListOk(KeysWithPrefix(
             [i \in 1..Len(chunk_order) |->
                 KeyToString(ChunkKey(chunk_order[i][1], chunk_order[i][2]))],
             SubSeq(prefix, 1, Len(prefix) - 1)))
    ELSE ListErr(BadKeyPrefix(prefix))

\* Store::list_prefix without the chunk stream
StoreListPrefix_MetadataOnly(ds, prefix, node_order, chunk_order) ==
    list_metadata_prefix(ds, prefix, node_order)

\* Store::list_prefix with the chunk stream ahead of the metadata stream
StoreListPrefix_ChunksFirst(ds, prefix, node_order, chunk_order) ==
    LET meta == list_metadata_prefix(ds, prefix, node_order)
        chunk_keys == list_chunks_prefix(ds, prefix, chunk_order)
    IN  IF ~meta.ok THEN meta
        ELSE IF ~chunk_keys.ok THEN chunk_keys
        ELSE ListOk(chunk_keys.val \o meta.val)

\* Store::list_prefix answering an empty stream for a prefix without the slash
StoreListPrefix_EmptyOnBadPrefix(ds, prefix, node_order, chunk_order) ==
    LET meta == list_metadata_prefix(ds, prefix, node_order)
        chunk_keys == list_chunks_prefix(ds, prefix, chunk_order)
    IN  IF ~meta.ok \/ ~chunk_keys.ok THEN ListOk(<<>>)
        ELSE ListOk(meta.val \o chunk_keys.val)

\* Store::list_prefix: the metadata stream chained with the chunk stream
StoreListPrefix(ds, prefix, node_order, chunk_order) ==
    LET meta == list_metadata_prefix(ds, prefix, node_order)
        chunk_keys == list_chunks_prefix(ds, prefix, chunk_order)
    IN  IF ~meta.ok THEN meta
        ELSE IF ~chunk_keys.ok THEN chunk_keys
        ELSE ListOk(meta.val \o chunk_keys.val)

\* Store::list
StoreList(ds, node_order, chunk_order) ==
    StoreListPrefix(ds, Str_slash, node_order, chunk_order)

\* rem.split_once('/').map_or(rem, |(parent, _)| parent)
FirstSegment(rem) == Split(rem, "/")[1]

\* Store::list_dir: the HashSet of the names.  &s[idx..] panics for a key shorter
\* than idx.
StoreListDir(ds, prefix, node_order, chunk_order) ==
    LET idx == IF prefix = Str_slash THEN 0 ELSE Len(prefix)
        listed == StoreListPrefix(ds, prefix, node_order, chunk_order)
    IN  IF ~listed.ok THEN [ok |-> FALSE, val |-> {}, err |-> listed.err]
        ELSE IF \E i \in 1..Len(listed.val) : idx > Len(listed.val[i])
        THEN [ok |-> FALSE, val |-> {}, err |-> Panicked]
        ELSE [ok |-> TRUE,
              val |-> {FirstSegment(DropChars(listed.val[i], idx)) :
                          i \in 1..Len(listed.val)},
              err |-> NoError]

\* a task of get_partial_values: spawned, finished with the result of get, or lost
\* (it panicked or the executor dropped it), so that awaiting it gives a JoinError
TaskSpawned == [st |-> "spawned", res |-> ReadErr(NoError)]

TaskFinished(res) == [st |-> "finished", res |-> res]

TaskLost == [st |-> "lost", res |-> ReadErr(NoError)]

\* spawn(async move { this.get(&key, &range).await }) run to its end: the task's
\* result is get's, and a get that panics loses the task
RunTask(ds, key) ==
    LET res == StoreGet(ds, key)
    IN  IF ~res.ok /\ res.err = Panicked THEN TaskLost ELSE TaskFinished(res)

\* task.await: Ok(get's result) or Err(JoinError)
JoinOutput(task) == [joined |-> task.st = "finished", res |-> task.res]

\* the for loop over tasks awaiting the task that finished first
AwaitedTask_FirstFinished(b) ==
    LET left == SelectSeq(b.finished, LAMBDA i : \A j \in 1..Len(b.awaited) : b.awaited[j] # i)
    IN  IF left # <<>> THEN left[1] ELSE 0

\* for task in tasks { outputs.push(task.await) }: the task awaited next is the
\* next in input order
AwaitedTask(b) == IF Len(b.awaited) < Len(b.tasks) THEN Len(b.awaited) + 1 ELSE 0

\* outputs.into_iter().try_collect().map_err(|e| StoreError::Unknown(Box::new(e)))
TryCollect(outputs) ==
    IF \A i \in 1..Len(outputs) : outputs[i].joined
    THEN [ok |-> TRUE, val |-> [i \in 1..Len(outputs) |-> outputs[i].res], err |-> NoError]
    ELSE [ok |-> FALSE, val |-> <<>>, err |-> Unknown]

\* Store::clear: todo!()
StoreClear(ds) == StoreErr(ds, Panicked)

\* Store::set_partial_values
StoreSetPartialValues(ds, key_start_values) ==
    StoreErr(ds, Unimplemented("set_partial_values"))

(***************************************************************************)
(* The inputs the operations are exercised on.                             *)
(***************************************************************************)
Str_a == <<"a">>

\* "a/zarr.json"
Key_a_meta == Str_a \o METADATA_SUFFIX

\* "c/0": a chunk of the root array
Key_root_chunk_0 == <<"c", "/", "0">>

\* "a/c/0": in the grid of an array of shape [2] with chunks of shape [1], outside
\* the grid of a zero-dimensional array, whose only chunk has no coordinates
Key_a_chunk_0 == <<"a", "/", "c", "/", "0">>

\* "/a/zarr.json": a key with a leading slash
Key_leading_slash == Str_slash \o Key_a_meta

\* "a/foo": neither a metadata key nor a chunk key
Key_a_foo == <<"a", "/", "f", "o", "o">>

\* "a/cx": the text after the rightmost "/c" does not start with '/'
Key_a_cx == Str_a \o CHUNK_COORD_INFIX \o <<"x">>

\* "a/c/x", "a/c/-1", "a/c/": a coordinate segment that is no numeral
Key_a_c_x == Str_a \o CHUNK_COORD_INFIX \o <<"/", "x">>

Key_a_c_minus == Str_a \o CHUNK_COORD_INFIX \o <<"/", "-", "1">>

Key_a_c_slash == Str_a \o CHUNK_COORD_INFIX \o Str_slash

\* "a/c/+1": a coordinate segment with a sign, which is no uint of the key grammar
Key_a_c_plus == Str_a \o CHUNK_COORD_INFIX \o <<"/", "+", "1">>

\* keys outside the key grammar
NonGrammarKeys ==
    {Key_leading_slash, Key_a_foo, Key_a_cx, Key_a_c_x, Key_a_c_minus, Key_a_c_slash,
     Key_a_c_plus}

MetadataKeys == {ROOT_KEY, Key_a_meta}

ChunkKeys == {Str_c, Key_root_chunk_0, Key_a_chunk_0}

StoreKeys == MetadataKeys \cup ChunkKeys \cup {Key_leading_slash, Key_a_foo}

AttrsSpam == JObj([spam |-> JStr("ham")])

AttrsFoo == JObj([foo |-> JNum(42)])

\* {"zarr_format":3,"node_type":"group"}
DocGroup == [zarr_format |-> JNum(3), node_type |-> JStr("group")]

\* the same with "attributes":{"spam":"ham"}
DocGroupAttrs ==
    [zarr_format |-> JNum(3), node_type |-> JStr("group"), attributes |-> AttrsSpam]

\* array metadata with every field: attributes, shape [2], chunks of shape [1]
DocArray ==
    [zarr_format |-> JNum(3), node_type |-> JStr("array"), attributes |-> AttrsFoo,
     shape |-> JArr(<<JNum(2)>>), data_type |-> JStr("int32"),
     chunk_grid |-> JsonOfNameConfig(NameConfigFromChunkShape(<<1>>)),
     chunk_key_encoding |-> JsonOfNameConfig(NameConfigFromChunkKeyEncoding("Slash")),
     fill_value |-> JNum(0),
     codecs |-> JArr(<<JObj([name |-> JStr("mycodec")])>>),
     storage_transformers |-> JArr(<<JObj([name |-> JStr("mytransformer")])>>),
     dimension_names |-> JArr(<<JStr("x")>>)]

\* array metadata without the optional fields, of a zero-dimensional array
DocArrayPlain ==
    [zarr_format |-> JNum(3), node_type |-> JStr("array"),
     shape |-> JArr(<<>>), data_type |-> JStr("int32"),
     chunk_grid |-> JsonOfNameConfig(NameConfigFromChunkShape(<<>>)),
     chunk_key_encoding |-> JsonOfNameConfig(NameConfigFromChunkKeyEncoding("Slash")),
     fill_value |-> JNum(0),
     codecs |-> JArr(<<>>)]

\* array metadata whose fill_value, a string, is not valid for int32
DocArrayBadFill == [DocArrayPlain EXCEPT !["fill_value"] = JStr("x")]

\* the array fields under node_type "group"
DocGroupWithArrayFields == [DocArrayPlain EXCEPT !["node_type"] = JStr("group")]

\* bytes that are not JSON; one byte, below the inline threshold
SmallBytes == RawBytes(<<104>>)

\* bytes that are not JSON, longer than the inline threshold
BigBytes == RawBytes(<<104, 101, 108, 108>>)

ValidGroupPayloads == {JsonBytes(DocGroup), JsonBytes(DocGroupAttrs)}

ValidArrayPayloads == {JsonBytes(DocArray), JsonBytes(DocArrayPlain)}

MetadataPayloads ==
    ValidGroupPayloads \cup ValidArrayPayloads
        \cup {JsonBytes(DocArrayBadFill), JsonBytes(DocGroupWithArrayFields)}

ChunkPayloads == {SmallBytes, BigBytes}

\* set is called with raw bytes at every key and with JSON text at the keys that
\* are not chunk keys
SetInputs ==
    (StoreKeys \X ChunkPayloads) \cup ((StoreKeys \ ChunkKeys) \X MetadataPayloads)

\* the (key, offset, bytes) lists set_partial_values is called with
PartialWrites == {<<>>, <<<<Str_c, 0, SmallBytes>>>>, <<<<Key_a_foo, 1, BigBytes>>>>}

\* "c/": the root array's chunk subtree, and also every key that starts with "c"
Prefix_c == Str_c \o Str_slash

\* "a/", "a/c/", "zarr.json/" and "/a/"
Prefix_a == Str_a \o Str_slash

Prefix_a_c == Str_a \o CHUNK_COORD_INFIX \o Str_slash

Prefix_zarr_json == ROOT_KEY \o Str_slash

Prefix_slash_a == Str_slash \o Str_a \o Str_slash

\* the prefixes that end with '/'
SlashPrefixes ==
    {Str_slash, Prefix_a, Prefix_c, Prefix_a_c, Prefix_zarr_json, Prefix_slash_a}

\* the prefixes that do not: "", "a", "/a", "a/c"
BadPrefixes == {<<>>, Str_a, Str_slash \o Str_a, Str_a \o CHUNK_COORD_INFIX}

ListPrefixes == SlashPrefixes \cup BadPrefixes

(***************************************************************************)
(* The state machine of the Store.                                         *)
(***************************************************************************)
EmptyMap == [x \in {} |-> 0]

NoBytes == RawBytes(<<>>)

Dataset == [nodes |-> nodes, chunks |-> chunks, storage |-> storage]

Ran(op, key, value, ok, err, val) ==
    [op |-> op, key |-> key, value |-> value, ok |-> ok, err |-> err, val |-> val]

NoCodec == [op |-> "none"]

NoBatch ==
    [phase |-> "none", requests |-> <<>>, tasks |-> <<>>,
     finished |-> <<>>, awaited |-> <<>>, outputs |-> <<>>]

Init ==
    /\ nodes = EmptyMap
    /\ chunks = EmptyMap
    /\ storage = <<>>
    /\ last = Ran("new", <<>>, NoBytes, TRUE, NoError, NoBytes)
    /\ codec = NoCodec
    /\ batch = NoBatch

\* store.set(key, value)
Set(key, value) ==
    LET r == StoreSet(Dataset, key, value)
    IN  /\ Len(r.ds.storage) <= MaxChunkObjects
        /\ nodes' = r.ds.nodes
        /\ chunks' = r.ds.chunks
        /\ storage' = r.ds.storage
        /\ last' = Ran("set", key, value, r.ok, r.err, NoBytes)
        /\ UNCHANGED <<codec, batch>>

\* store.delete(key)
Delete(key) ==
    LET r == StoreDelete(Dataset, key)
    IN  /\ nodes' = r.ds.nodes
        /\ chunks' = r.ds.chunks
        /\ storage' = r.ds.storage
        /\ last' = Ran("delete", key, NoBytes, r.ok, r.err, NoBytes)
        /\ UNCHANGED <<codec, batch>>

\* store.get(key) that takes the chunk it returns out of the dataset
Get_TakesChunk(key) ==
    LET r == StoreGet(Dataset, key)
        k == KeyParse(key)
    IN  /\ last' = Ran("get", key, NoBytes, r.ok, r.err, r.val)
        /\ chunks' = IF r.ok /\ k.key.tag = "Chunk"
                     THEN WithoutKey(chunks, <<k.key.node_path, k.key.coords>>)
                     ELSE chunks
        /\ UNCHANGED <<nodes, storage, codec, batch>>

\* store.get(key, &(None, None))
Get(key) ==
    LET r == StoreGet(Dataset, key)
    IN  /\ last' = Ran("get", key, NoBytes, r.ok, r.err, r.val)
        /\ UNCHANGED <<nodes, chunks, storage, codec, batch>>

\* store.exists(key)
Exists(key) ==
    LET r == StoreExists(Dataset, key)
    IN  /\ last' = Ran("exists", key, NoBytes, r.ok, r.err, r.val)
        /\ UNCHANGED <<nodes, chunks, storage, codec, batch>>

\* store.dataset().flush(), then Store::new(Dataset::update(storage, oid).build())
Flush ==
    LET ds == flush_and_update(Dataset)
    IN  /\ nodes' = ds.nodes
        /\ chunks' = ds.chunks
        /\ storage' = ds.storage
        /\ last' = Ran("flush", <<>>, NoBytes, TRUE, NoError, NoBytes)
        /\ UNCHANGED <<codec, batch>>

\* store.clear()
Clear ==
    LET r == StoreClear(Dataset)
    IN  /\ nodes' = r.ds.nodes
        /\ chunks' = r.ds.chunks
        /\ storage' = r.ds.storage
        /\ last' = Ran("clear", <<>>, NoBytes, r.ok, r.err, NoBytes)
        /\ UNCHANGED <<codec, batch>>

\* store.set_partial_values(key_start_values)
SetPartialValues(key_start_values) ==
    LET r == StoreSetPartialValues(Dataset, key_start_values)
    IN  /\ nodes' = r.ds.nodes
        /\ chunks' = r.ds.chunks
        /\ storage' = r.ds.storage
        /\ last' = Ran("set_partial_values", <<>>, NoBytes, r.ok, r.err, NoBytes)
        /\ UNCHANGED <<codec, batch>>

SetStep == \E input \in SetInputs : Set(input[1], input[2])

SetPartialValuesStep == \E input \in PartialWrites : SetPartialValues(input)

DeleteStep == \E key \in StoreKeys : Delete(key)

GetStep == \E key \in StoreKeys : Get(key)

ExistsStep == \E key \in StoreKeys : Exists(key)

Next ==
    \/ SetStep \/ DeleteStep \/ GetStep \/ ExistsStep \/ Flush
    \/ Clear \/ SetPartialValuesStep

Spec == Init /\ [][Next]_vars

(***************************************************************************)
(* The listing operations over the stores that set and delete build.  A    *)
(* stream is the sequence of its items; the engine's iteration order is    *)
(* chosen freely.                                                          *)
(***************************************************************************)
\* store.empty()
Empty ==
    \E node_order \in list_nodes(Dataset) :
        LET r == StoreEmpty(Dataset, node_order)
        IN  /\ last' = Ran("empty", <<>>, NoBytes, r.ok, r.err, r.val)
            /\ UNCHANGED <<nodes, chunks, storage, codec, batch>>

\* store.list(), collected
List ==
    \E node_order \in list_nodes(Dataset), chunk_order \in all_chunks(Dataset) :
        LET r == StoreList(Dataset, node_order, chunk_order)
        IN  /\ last' = Ran("list", Str_slash, NoBytes, r.ok, r.err, r.val)
            /\ UNCHANGED <<nodes, chunks, storage, codec, batch>>

\* store.list_prefix(prefix), collected
ListPrefix(prefix) ==
    \E node_order \in list_nodes(Dataset), chunk_order \in all_chunks(Dataset) :
        LET r == StoreListPrefix(Dataset, prefix, node_order, chunk_order)
        IN  /\ last' = Ran("list_prefix", prefix, NoBytes, r.ok, r.err, r.val)
            /\ UNCHANGED <<nodes, chunks, storage, codec, batch>>

\* store.list_dir(prefix), collected: the names of the HashSet in the order its
\* iterator gives them
ListDir(prefix) ==
    \E node_order \in list_nodes(Dataset), chunk_order \in all_chunks(Dataset) :
        LET r == StoreListDir(Dataset, prefix, node_order, chunk_order)
        IN  \E names \in Orders(r.val) :
                /\ last' = Ran("list_dir", prefix, NoBytes, r.ok, r.err, names)
                /\ UNCHANGED <<nodes, chunks, storage, codec, batch>>

\* the sets and deletes that build the stores to list: groups and arrays at "/" and
\* "/a", inline and external chunks in them
ListSetInputs ==
    (MetadataKeys \X {JsonBytes(DocGroup), JsonBytes(DocArray), JsonBytes(DocArrayPlain)})
        \cup (ChunkKeys \X ChunkPayloads)

ListSetStep == \E input \in ListSetInputs : Set(input[1], input[2])

ListDeleteStep == \E key \in MetadataKeys \cup ChunkKeys : Delete(key)

ListPrefixStep == \E prefix \in ListPrefixes : ListPrefix(prefix)

ListDirStep == \E prefix \in ListPrefixes : ListDir(prefix)

ListNext ==
    ListSetStep \/ ListDeleteStep \/ Empty \/ List \/ ListPrefixStep \/ ListDirStep

ListSpec == Init /\ [][ListNext]_vars

(***************************************************************************)
(* get_partial_values: one spawned task per request, run by the executor   *)
(* in any order, awaited in input order.  The store is shared through an   *)
(* Arc while the call runs, so no set or delete runs meanwhile.            *)
(***************************************************************************)
BatchKeys == {ROOT_KEY, Str_c, Key_a_foo}

\* the request lists of at most n keys (the byte ranges are ignored by get)
RECURSIVE RequestLists(_)
RequestLists(n) ==
    IF n = 0 THEN {<<>>}
    ELSE RequestLists(n - 1)
         \cup {Append(l, k) : l \in {x \in RequestLists(n - 1) : Len(x) = n - 1},
                              k \in BatchKeys}

BatchSetInputs ==
    {<<ROOT_KEY, JsonBytes(DocGroup)>>, <<ROOT_KEY, JsonBytes(DocArrayPlain)>>,
     <<Str_c, SmallBytes>>}

Idle == batch.phase \in {"none", "returned"}

BatchSetStep == Idle /\ \E input \in BatchSetInputs : Set(input[1], input[2])

BatchDeleteStep == Idle /\ Delete(ROOT_KEY)

\* store.get_partial_values(key_ranges) up to the end of the spawning loop
SpawnTasks(requests) ==
    /\ Idle
    /\ batch' = [phase |-> "running", requests |-> requests,
                  tasks |-> [i \in 1..Len(requests) |-> TaskSpawned],
                  finished |-> <<>>, awaited |-> <<>>, outputs |-> <<>>]
    /\ UNCHANGED <<nodes, chunks, storage, last, codec>>

\* the executor runs a spawned task to its end
TaskRuns(i) ==
    /\ batch.phase = "running"
    /\ batch.tasks[i].st = "spawned"
    /\ batch' = [batch EXCEPT !.tasks[i] = RunTask(Dataset, batch.requests[i]),
                              !.finished = Append(@, i)]
    /\ UNCHANGED <<nodes, chunks, storage, last, codec>>

\* the executor drops a spawned task (it shuts down)
TaskIsLost(i) ==
    /\ batch.phase = "running"
    /\ batch.tasks[i].st = "spawned"
    /\ batch' = [batch EXCEPT !.tasks[i] = TaskLost, !.finished = Append(@, i)]
    /\ UNCHANGED <<nodes, chunks, storage, last, codec>>

\* outputs.push(task.await), once the awaited task is over
Await ==
    /\ batch.phase = "running"
    /\ AwaitedTask(batch) # 0
    /\ batch.tasks[AwaitedTask(batch)].st # "spawned"
    /\ batch' = [batch EXCEPT !.awaited = Append(@, AwaitedTask(batch)),
                              !.outputs = Append(@, JoinOutput(batch.tasks[AwaitedTask(batch)]))]
    /\ UNCHANGED <<nodes, chunks, storage, last, codec>>

\* the call returns what try_collect makes of the outputs
Return ==
    /\ batch.phase = "running"
    /\ Len(batch.outputs) = Len(batch.tasks)
    /\ LET r == TryCollect(batch.outputs)
       IN  last' = Ran("get_partial_values", batch.requests, NoBytes, r.ok, r.err, r.val)
    /\ batch' = [batch EXCEPT !.phase = "returned"]
    /\ UNCHANGED <<nodes, chunks, storage, codec>>

SpawnTasksStep == \E requests \in RequestLists(MaxRequests) : SpawnTasks(requests)

TaskRunsStep == \E i \in 1..MaxRequests : i <= Len(batch.tasks) /\ TaskRuns(i)

TaskIsLostStep == \E i \in 1..MaxRequests : i <= Len(batch.tasks) /\ TaskIsLost(i)

BatchNext ==
    \/ BatchSetStep \/ BatchDeleteStep
    \/ SpawnTasksStep \/ TaskRunsStep \/ TaskIsLostStep \/ Await \/ Return

BatchSpec == Init /\ [][BatchNext]_vars

(***************************************************************************)
(* The key codec on its own: Key::to_string and Key::parse applied to      *)
(* structured keys and to the strings of the key grammar.                  *)
(***************************************************************************)
\* path segments: a plain name, the chunk marker's name, the metadata leaf's name
Segments == {Str_a, Str_c, Str_zarr_json}

\* the lists of at most n segments
RECURSIVE SegmentLists(_)
SegmentLists(n) ==
    IF n = 0 THEN {<<>>}
    ELSE SegmentLists(n - 1)
         \cup {Append(l, s) : l \in {x \in SegmentLists(n - 1) : Len(x) = n - 1},
                              s \in Segments}

\* the absolute path of a list of segments
PathOfSegments(segs) == Str_slash \o Join(segs, Str_slash)

\* the path of the list with a byte that is not UTF-8 in its last segment
NonUtf8PathOfSegments(segs) == PathOfSegments(segs) \o <<NonUtf8Byte>>

CoordValues == {0, 1, MaxCoord}

\* the coordinate tuples of at most n coordinates
RECURSIVE CoordTuples(_)
CoordTuples(n) ==
    IF n = 0 THEN {<<>>}
    ELSE CoordTuples(n - 1)
         \cup {Append(t, c) : t \in {x \in CoordTuples(n - 1) : Len(x) = n - 1},
                              c \in CoordValues}

CodecPaths ==
    {PathOfSegments(segs) : segs \in SegmentLists(MaxDepth)}
        \cup {NonUtf8PathOfSegments(segs) : segs \in SegmentLists(1)}

CodecKeys ==
    {MetadataKey(p) : p \in CodecPaths}
        \cup {ChunkKey(p, cs) : p \in CodecPaths, cs \in CoordTuples(MaxDims)}

\* ( "/" uint )*, uint a decimal numeral
CoordSuffix(coords) ==
    Join(<<<<>>>> \o [i \in 1..Len(coords) |-> U64ToString(coords[i])], Str_slash)

\* key ::= root-meta | node-meta | root-chunk | node-chunk
GrammarKeys ==
    {ROOT_KEY}
        \cup {Join(segs, Str_slash) \o METADATA_SUFFIX :
                 segs \in SegmentLists(MaxDepth) \ {<<>>}}
        \cup {Str_c \o CoordSuffix(cs) : cs \in CoordTuples(MaxDims)}
        \cup {Join(segs, Str_slash) \o CHUNK_COORD_INFIX \o CoordSuffix(cs) :
                 segs \in SegmentLists(MaxDepth) \ {<<>>}, cs \in CoordTuples(MaxDims)}

RoundTrip(op, key, str, formatted, parsed) ==
    [op |-> op, key |-> key, str |-> str, formatted |-> formatted, parsed |-> parsed]

NoString == [some |-> FALSE, s |-> <<>>]

\* Key::parse(k.to_string())
FormatThenParse(k) ==
    LET formatted == KeyToString(k)
    IN  /\ codec' = RoundTrip("format_parse", k, <<>>, formatted,
                        IF formatted.some THEN KeyParse(formatted.s)
                        ELSE ParseErr(NoError))
        /\ UNCHANGED <<nodes, chunks, storage, last, batch>>

\* Key::parse(s).to_string()
ParseThenFormat(s) ==
    LET parsed == KeyParse(s)
    IN  /\ codec' = RoundTrip("parse_format", MetadataKey(<<>>), s,
                        IF parsed.ok THEN KeyToString(parsed.key) ELSE NoString,
                        parsed)
        /\ UNCHANGED <<nodes, chunks, storage, last, batch>>

FormatThenParseStep == \E k \in CodecKeys : FormatThenParse(k)

ParseThenFormatStep == \E s \in GrammarKeys : ParseThenFormat(s)

CodecNext == FormatThenParseStep \/ ParseThenFormatStep

CodecSpec == Init /\ [][CodecNext]_vars

(***************************************************************************)
(* The metadata bridge on its own: a structured array metadata record      *)
(* written as Zarr-v3 JSON and read back.                                  *)
(***************************************************************************)
\* enum ChunkKeyEncoding: the separator choices
ChunkKeyEncodings == {"Slash", "Dot", "Default"}

ArrayShapes == {<<>>, <<2, 3>>}

\* chunk shapes of positive integers
ChunkShapes == {<<>>, <<1>>, <<1, MaxCoord>>}

CodecLists == {<<>>, <<JObj([name |-> JStr("mycodec")])>>}

StorageTransformerOptions == {None, Some(JArr(<<JObj([name |-> JStr("mytransformer")])>>))}

\* each dimension name can be null
DimensionNameOptions == {None, Some(JArr(<<JNull, JStr("y")>>))}

\* the valid ZarrArrayMetadata records: the fill value is of the data type
ArrayMetadataRecords ==
    {[shape |-> shape, data_type |-> data_type, chunk_shape |-> chunk_shape,
      chunk_key_encoding |-> chunk_key_encoding,
      fill_value |-> [type |-> data_type, n |-> 1],
      codecs |-> codecs, storage_transformers |-> storage_transformers,
      dimension_names |-> dimension_names] :
        shape \in ArrayShapes, data_type \in DataTypes, chunk_shape \in ChunkShapes,
        chunk_key_encoding \in ChunkKeyEncodings, codecs \in CodecLists,
        storage_transformers \in StorageTransformerOptions,
        dimension_names \in DimensionNameOptions}

\* serde_json::from_slice::<ArrayMetadata>(&ArrayMetadata::new(None, m).to_bytes())
SerializeThenParse(m) ==
    LET bytes == ArrayMetadataToBytes(None, m)
    IN  /\ codec' = [op |-> "serialize_parse", m |-> m, bytes |-> bytes,
                      parsed |-> DeserializeArrayMetadata(bytes)]
        /\ UNCHANGED <<nodes, chunks, storage, last, batch>>

BridgeNext == \E m \in ArrayMetadataRecords : SerializeThenParse(m)

BridgeSpec == Init /\ [][BridgeNext]_vars

(***************************************************************************)
(* C1 and C2: the round-trip laws of the key codec.                        *)
(***************************************************************************)
\* C1: for every structured key k whose path is UTF-8, Key::parse(Key::to_string(k))
\* succeeds and returns exactly k, the root path with coordinates included.
C1_ParseOfFormatIsKey ==
    (codec.op = "format_parse" /\ PathToStr(codec.key.node_path).some)
        => (codec.formatted.some /\ codec.parsed.ok /\ codec.parsed.key = codec.key)

\* C1 off the failing case: the law holds for every key but a chunk key of the root
\* with at least one coordinate.
C1_HoldsOffRootCoords ==
    (/\ codec.op = "format_parse"
     /\ PathToStr(codec.key.node_path).some
     /\ ~(codec.key.tag = "Chunk" /\ codec.key.node_path = RootPath
            /\ codec.key.coords # <<>>))
        => (codec.formatted.some /\ codec.parsed.ok /\ codec.parsed.key = codec.key)

\* C2: for every string s of the key grammar, Key::parse(s) succeeds and
\* Key::to_string of the result is s.
C2_FormatOfParseIsString ==
    codec.op = "parse_format"
        => (codec.parsed.ok /\ codec.formatted.some /\ codec.formatted.s = codec.str)

\* the root-chunk strings with at least one coordinate: "c/<uint>", "c/<uint>/<uint>"
RootChunkKeysWithCoords ==
    {Str_c \o CoordSuffix(cs) : cs \in CoordTuples(MaxDims) \ {<<>>}}

\* C2 off the failing case: the law holds for every grammar string but those.
C2_HoldsOffRootCoords ==
    (codec.op = "parse_format" /\ codec.str \notin RootChunkKeysWithCoords)
        => (codec.parsed.ok /\ codec.formatted.some /\ codec.formatted.s = codec.str)

(***************************************************************************)
(* C3..C10: set, get, exists and delete.                                   *)
(***************************************************************************)
IsMetadataKey(key) == KeyParse(key).ok /\ KeyParse(key).key.tag = "Metadata"

IsChunkKey(key) == KeyParse(key).ok /\ KeyParse(key).key.tag = "Chunk"

NodePathOf(key) == KeyParse(key).key.node_path

ArrayFieldNames ==
    {"shape", "data_type", "chunk_grid", "chunk_key_encoding", "fill_value", "codecs",
     "storage_transformers", "dimension_names"}

\* the Zarr-v3 JSON a payload normalizes to: zarr_format 3, the payload's node_type
\* and attributes (null when it has none) and, for an array, the payload's array
\* fields (null for an optional field it leaves out)
NormalizedJson(value) ==
    LET doc == value.doc
        fields == IF doc["node_type"] = JStr("array")
                  THEN {"zarr_format", "node_type", "attributes"} \cup ArrayFieldNames
                  ELSE {"zarr_format", "node_type", "attributes"}
    IN  JsonBytes([f \in fields |-> IF Has(doc, f) THEN doc[f] ELSE JNull])

\* C3: after a successful set of a metadata key, get of the key returns the
\* normalized JSON of the payload that was set: its node_type, its attributes and,
\* for an array, its array fields.
C3_GetReturnsWhatWasSet ==
    (last.op = "set" /\ last.ok /\ IsMetadataKey(last.key))
        => StoreGet(Dataset, last.key) = ReadOk(NormalizedJson(last.value))

\* C3 on the payloads that are valid group or array metadata: there get returns the
\* normalized payload.
C3_HoldsForValidPayloads ==
    (/\ last.op = "set" /\ last.ok /\ IsMetadataKey(last.key)
     /\ last.value \in ValidGroupPayloads \cup ValidArrayPayloads)
        => StoreGet(Dataset, last.key) = ReadOk(NormalizedJson(last.value))

\* the step that ran wrote, removed or took away with its array the chunk at key
TouchesChunk(key) ==
    /\ last'.ok
    /\ \/ last'.op \in {"set", "delete"} /\ last'.key = key
       \/ /\ last'.op = "delete" /\ IsMetadataKey(last'.key)
          /\ NodePathOf(last'.key) = NodePathOf(key)

C4_Step ==
    /\ (last'.op = "set" /\ last'.ok /\ IsChunkKey(last'.key))
           => StoreGet(Dataset', last'.key) = ReadOk(last'.value)
    /\ \A key \in ChunkKeys :
           (StoreGet(Dataset, key).ok /\ ~TouchesChunk(key))
               => StoreGet(Dataset', key) = StoreGet(Dataset, key)

OtherKindAt(path, value) ==
    /\ path \in DOMAIN nodes
    /\ \/ nodes[path].node_data.kind = "Group" /\ value \in ValidArrayPayloads
       \/ nodes[path].node_data.kind = "Array" /\ value \in ValidGroupPayloads

C5_Step ==
    (/\ last'.op = "set" /\ IsMetadataKey(last'.key)
     /\ OtherKindAt(NodePathOf(last'.key), last'.value))
        => /\ ~last'.ok
           /\ last'.err.kind = "CannotUpdate"
           /\ NodePathOf(last'.key) \in DOMAIN nodes'
           /\ nodes'[NodePathOf(last'.key)].node_data.kind
                  = nodes[NodePathOf(last'.key)].node_data.kind

\* C5: set of valid array metadata at a group's path, or of valid group metadata at
\* an array's path, fails with CannotUpdate and the node keeps its kind.
C5_OtherKindCannotUpdate == [][C5_Step]_vars

C5_Witness ==
    /\ last.op = "set" /\ ~last.ok /\ last.err.kind = "CannotUpdate"
    /\ IsMetadataKey(last.key)
    /\ last.value \in ValidArrayPayloads
    /\ nodes[NodePathOf(last.key)].node_data.kind = "Group"

\* C6: set of a metadata key with array metadata whose fill_value is not valid for
\* its data_type, or with bytes that are not JSON, fails with BadMetadata.
C6_BadPayloadIsBadMetadata ==
    (/\ last.op = "set" /\ IsMetadataKey(last.key)
     /\ last.value \in {JsonBytes(DocArrayBadFill), SmallBytes, BigBytes})
        => (~last.ok /\ last.err = BadMetadata)

\* C6 on the bytes that are not JSON: those are rejected with BadMetadata.
C6_HoldsForMalformedJson ==
    (/\ last.op = "set" /\ IsMetadataKey(last.key)
     /\ last.value \in {SmallBytes, BigBytes})
        => (~last.ok /\ last.err = BadMetadata)

\* the array a chunk key of the key grammar belongs to: the root for "c" and "c/0"
GrammarNodePathOf(key) ==
    IF key \in {Str_c, Key_root_chunk_0} THEN RootPath ELSE Str_slash \o Str_a

ArrayAt(path) == path \in DOMAIN nodes /\ nodes[path].node_data.kind = "Array"

\* C7: delete of a chunk key of an existing array returns Ok, whatever the chunk's
\* state and coordinates.
C7_ChunkDeleteIsOk ==
    (last.op = "delete" /\ last.key \in ChunkKeys /\ ArrayAt(GrammarNodePathOf(last.key)))
        => last.ok

\* C7 on the chunk keys Key::parse accepts: there delete is Ok, also of a chunk that
\* is not there, and get answers ChunkNotFound with the key, path and coords.
C7_HoldsForParsedChunkKeys ==
    (last.op = "delete" /\ IsChunkKey(last.key) /\ ArrayAt(NodePathOf(last.key)))
        => /\ last.ok
           /\ StoreDelete(Dataset, last.key).ok
           /\ StoreGet(Dataset, last.key)
                  = ReadErr(ChunkNotFound(last.key, NodePathOf(last.key),
                                          KeyParse(last.key).key.coords))

C8_Step ==
    /\ (/\ last'.op = "delete" /\ IsMetadataKey(last'.key)
        /\ NodePathOf(last'.key) \notin DOMAIN nodes)
           => /\ ~last'.ok
              /\ last'.err = NodeNotFound(NodePathOf(last'.key))
    /\ (last'.op = "delete" /\ IsMetadataKey(last'.key) /\ last'.ok)
           => LET again == StoreDelete(Dataset', last'.key)
              IN  ~again.ok /\ again.err = NodeNotFound(NodePathOf(last'.key))

\* C8: delete of a metadata key whose node does not exist fails with
\* NotFound(NodeNotFound{path}); after a successful delete a second delete of the
\* key fails so.
C8_DeleteMissingNodeFails == [][C8_Step]_vars

C8_Witness ==
    /\ last.op = "delete" /\ ~last.ok
    /\ IsMetadataKey(last.key)
    /\ last.err = NodeNotFound(NodePathOf(last.key))
    /\ nodes # EmptyMap

NodeIsNotFound(ds, key) == StoreGet(ds, key) = ReadErr(NodeNotFound(NodePathOf(key)))

C9_Step ==
    /\ (last'.op = "delete" /\ last'.ok /\ IsMetadataKey(last'.key))
           => NodeIsNotFound(Dataset', last'.key)
    /\ \A key \in MetadataKeys :
           (NodeIsNotFound(Dataset, key) /\ ~(last'.op = "set" /\ last'.key = key))
               => NodeIsNotFound(Dataset', key)
    /\ \A key \in MetadataKeys :
           NodeIsNotFound(Dataset', key)
               => \A value \in ValidGroupPayloads \cup ValidArrayPayloads :
                      StoreSet(Dataset', key, value).ok

\* C9: after a successful delete of a metadata key, get of the key returns
\* NotFound(NodeNotFound{path}) until the key is set again, and while it does a set
\* of the key succeeds with group metadata and with array metadata.
C9_DeletedNodeStaysGone == [][C9_Step]_vars

C9_Witness ==
    /\ last.op = "delete" /\ last.ok /\ IsMetadataKey(last.key)
    /\ NodeIsNotFound(Dataset, last.key)
    /\ \E value \in ValidGroupPayloads : StoreSet(Dataset, last.key, value).ok
    /\ \E value \in ValidArrayPayloads : StoreSet(Dataset, last.key, value).ok

\* C10: exists(k) is Ok(true) exactly when get(k) is Ok, Ok(false) exactly when get
\* fails with NotFound, and get's error for any other failure.
C10_ExistsFollowsGet ==
    \A key \in StoreKeys :
        LET g == StoreGet(Dataset, key)
            e == StoreExists(Dataset, key)
        IN  /\ (e.ok /\ e.val) <=> g.ok
            /\ (e.ok /\ ~e.val) <=> (~g.ok /\ g.err.kind = "NotFound")
            /\ ~e.ok <=> (~g.ok /\ g.err.kind # "NotFound")
            /\ ~e.ok => e.err = g.err

C10_Witness ==
    /\ last.op = "exists" /\ last.ok /\ last.val = FALSE
    /\ IsChunkKey(last.key)
    /\ StoreExists(Dataset, ROOT_KEY) = [ok |-> TRUE, val |-> TRUE, err |-> NoError]
    /\ ~StoreExists(Dataset, Key_a_foo).ok
    /\ ~StoreExists(Dataset, Key_a_chunk_0).ok

(***************************************************************************)
(* C11..C13, C15, C20: empty, list, list_prefix and list_dir.              *)
(***************************************************************************)
\* C11: in every state that set and delete reach, empty() is true exactly when
\* list() yields no key, whatever order the engine iterates in.
C11_EmptyIffNothingListed ==
    \A node_order \in list_nodes(Dataset), chunk_order \in all_chunks(Dataset) :
        LET listed == StoreList(Dataset, node_order, chunk_order)
        IN  /\ StoreEmpty(Dataset, node_order).ok
            /\ listed.ok
            /\ StoreEmpty(Dataset, node_order).val <=> (Len(listed.val) = 0)

\* empty() answered true for a store that held an array with an external chunk
C11_Witness ==
    /\ last.op = "empty" /\ last.ok /\ last.val = TRUE
    /\ storage # <<>>

\* how often an item occurs in a stream
Count(stream, item) == Cardinality({i \in 1..Len(stream) : stream[i] = item})

\* how many nodes and stored chunks have the key string as their formatted key
StoredCount(key) ==
    Cardinality({path \in DOMAIN nodes :
                    KeyToString(MetadataKey(path)) = [some |-> TRUE, s |-> key]})
        + Cardinality({c \in DOMAIN chunks :
                          KeyToString(ChunkKey(c[1], c[2])) = [some |-> TRUE, s |-> key]})

\* the key strings of the nodes and of the stored chunks
StoredKeys ==
    {KeyToString(MetadataKey(path)).s : path \in DOMAIN nodes}
        \cup {KeyToString(ChunkKey(c[1], c[2])).s : c \in DOMAIN chunks}

\* C12: for every prefix p that ends with '/', list_prefix(p) yields every stored
\* key that starts with p less its trailing slash once per node or chunk that has it,
\* and nothing else; list() yields what list_prefix("/") yields, every stored key.
C12_ListPrefixYieldsKeysWithPrefix ==
    \A node_order \in list_nodes(Dataset), chunk_order \in all_chunks(Dataset) :
        /\ \A prefix \in SlashPrefixes :
               LET listed == StoreListPrefix(Dataset, prefix, node_order, chunk_order)
                   stripped == SubSeq(prefix, 1, Len(prefix) - 1)
               IN  /\ listed.ok
                   /\ \A key \in StoredKeys \cup {listed.val[i] : i \in 1..Len(listed.val)} :
                          Count(listed.val, key)
                              = IF StartsWith(key, stripped) THEN StoredCount(key) ELSE 0
        /\ LET all == StoreList(Dataset, node_order, chunk_order)
           IN  /\ all = StoreListPrefix(Dataset, Str_slash, node_order, chunk_order)
               /\ \A key \in StoredKeys : Count(all.val, key) = StoredCount(key)

\* list_prefix("a/") yielded the two keys under "a" of a store that holds four
C12_Witness ==
    /\ last.op = "list_prefix" /\ last.key = Prefix_a /\ last.ok
    /\ Len(last.val) = 2
    /\ Cardinality(StoredKeys) = 4

\* the key after the prefix is removed: nothing is removed for "/"
AfterPrefix(prefix, key) == IF prefix = Str_slash THEN key ELSE DropChars(key, Len(prefix))

\* C13: for every prefix p that ends with '/', list_dir(p) yields the distinct first
\* path segments of the keys of list_prefix(p) after the prefix is removed.
C13_ListDirYieldsFirstSegments ==
    \A node_order \in list_nodes(Dataset), chunk_order \in all_chunks(Dataset) :
        \A prefix \in SlashPrefixes :
            LET listed == StoreListPrefix(Dataset, prefix, node_order, chunk_order)
                dir == StoreListDir(Dataset, prefix, node_order, chunk_order)
            IN  /\ dir.ok
                /\ dir.val = {Split(AfterPrefix(prefix, listed.val[i]), "/")[1] :
                                 i \in 1..Len(listed.val)}

\* C13 where no listed key is shorter than the prefix: there list_dir yields the
\* first segments, each name once.
C13_HoldsForKeysNoShorterThanPrefix ==
    /\ \A node_order \in list_nodes(Dataset), chunk_order \in all_chunks(Dataset) :
           \A prefix \in SlashPrefixes :
               LET listed == StoreListPrefix(Dataset, prefix, node_order, chunk_order)
                   dir == StoreListDir(Dataset, prefix, node_order, chunk_order)
               IN  (\A i \in 1..Len(listed.val) : Len(listed.val[i]) >= Len(prefix))
                       => /\ dir.ok
                          /\ dir.val = {Split(AfterPrefix(prefix, listed.val[i]), "/")[1] :
                                           i \in 1..Len(listed.val)}
    /\ (last.op = "list_dir" /\ last.ok)
           => \A i, j \in 1..Len(last.val) : last.val[i] = last.val[j] => i = j

\* C15: list_prefix and list_dir fail with BadKeyPrefix(p), p as it was given, for
\* every prefix that does not end with '/', and yield nothing.
C15_PrefixWithoutSlashIsBadKeyPrefix ==
    \A node_order \in list_nodes(Dataset), chunk_order \in all_chunks(Dataset) :
        \A prefix \in BadPrefixes :
            /\ StoreListPrefix(Dataset, prefix, node_order, chunk_order)
                   = ListErr(BadKeyPrefix(prefix))
            /\ StoreListDir(Dataset, prefix, node_order, chunk_order)
                   = [ok |-> FALSE, val |-> {}, err |-> BadKeyPrefix(prefix)]

\* list_dir("/a") failed on a store that holds the node /a
C15_Witness ==
    /\ last.op = "list_dir" /\ ~last.ok
    /\ last.key = Str_slash \o Str_a
    /\ last.err = BadKeyPrefix(Str_slash \o Str_a)
    /\ last.val = <<>>
    /\ (Str_slash \o Str_a) \in DOMAIN nodes

\* C20: in the stream of list and of list_prefix no metadata key comes after a
\* chunk key.
C20_MetadataKeysBeforeChunkKeys ==
    (last.op \in {"list", "list_prefix"} /\ last.ok)
        => \A i, j \in 1..Len(last.val) :
               (IsChunkKey(last.val[i]) /\ IsMetadataKey(last.val[j])) => j < i

\* list() yielded two metadata keys and then two chunk keys
C20_Witness ==
    /\ last.op = "list" /\ last.ok
    /\ Len(last.val) = 4
    /\ IsMetadataKey(last.val[2]) /\ IsChunkKey(last.val[3])

(***************************************************************************)
(* C14: get_partial_values.                                                *)
(***************************************************************************)
\* C14: get_partial_values returns, when every task was joined, Ok of a vector as
\* long as the request list whose i-th element is the result of get on the i-th key,
\* in whatever order the tasks finished, a key's error in that key's element only;
\* it fails, with Unknown, exactly when a task could not be joined.
C14_ResultsInInputOrder ==
    (last.op = "get_partial_values" /\ batch.phase = "returned")
        => LET lost == \E i \in 1..Len(batch.tasks) : batch.tasks[i].st = "lost"
           IN  /\ last.key = batch.requests
               /\ ~lost => /\ last.ok
                           /\ Len(last.val) = Len(batch.requests)
                           /\ \A i \in 1..Len(batch.requests) :
                                  last.val[i] = StoreGet(Dataset, batch.requests[i])
               /\ lost <=> ~last.ok
               /\ ~last.ok => last.err = Unknown

\* the second task finished first; the call returned the first key's metadata and
\* then the second key's InvalidKey
C14_Witness ==
    /\ last.op = "get_partial_values" /\ batch.phase = "returned"
    /\ last.ok
    /\ batch.requests = <<ROOT_KEY, Key_a_foo>>
    /\ batch.finished = <<2, 1>>
    /\ last.val[1].ok
    /\ last.val[2] = ReadErr(InvalidKey(Key_a_foo))

(***************************************************************************)
(* C16: keys outside the key grammar.                                      *)
(***************************************************************************)
\* get, set and delete of the key all answer InvalidKey{key} and change nothing
AnswersInvalidKey(key) ==
    /\ StoreGet(Dataset, key) = ReadErr(InvalidKey(key))
    /\ StoreDelete(Dataset, key) = StoreErr(Dataset, InvalidKey(key))
    /\ \A value \in ChunkPayloads \cup MetadataPayloads :
           StoreSet(Dataset, key, value) = StoreErr(Dataset, InvalidKey(key))

\* C16: get, set and delete of a key that is not in the key grammar (a leading '/',
\* neither a "/c" marker nor a "zarr.json" leaf, text after the rightmost "/c" that
\* does not start with '/', a coordinate segment that is no uint) return
\* InvalidKey{key} with the key as it was given.
C16_NonGrammarKeyIsInvalidKey == \A key \in NonGrammarKeys : AnswersInvalidKey(key)

\* C16 for the keys other than those with a signed coordinate: they are rejected.
C16_HoldsOffSignedCoords ==
    \A key \in NonGrammarKeys \ {Key_a_c_plus} : AnswersInvalidKey(key)

(***************************************************************************)
(* C17: the round trip of array metadata through its JSON form.            *)
(***************************************************************************)
\* C17: for every valid ZarrArrayMetadata record m, with any chunk shape of positive
\* integers, any chunk key encoding and any optional fields, the JSON form of m
\* parses, and parses back to a record equal to m.
C17_ParseOfSerializeIsRecord ==
    codec.op = "serialize_parse"
        => (codec.parsed.ok /\ codec.parsed.v.zarr_metadata = codec.m)

\* C17 for the records whose chunk key encoding is Slash: they come back equal.
C17_HoldsForSlashEncoding ==
    (codec.op = "serialize_parse" /\ codec.m.chunk_key_encoding = "Slash")
        => (codec.parsed.ok /\ codec.parsed.v.zarr_metadata = codec.m)

(***************************************************************************)
(* C18: the operations that are not implemented.                           *)
(***************************************************************************)
\* C18: set_partial_values and clear return the error Unimplemented(op), op the
\* operation's name, for every input and in every store.
C18_AlwaysUnimplemented ==
    last.op \in {"clear", "set_partial_values"}
        => (~last.ok /\ last.err = Unimplemented(last.op))

C18_SetPartialValuesStep ==
    last'.op = "set_partial_values"
        => /\ ~last'.ok
           /\ last'.err = Unimplemented("set_partial_values")
           /\ UNCHANGED <<nodes, chunks, storage>>

\* C18 for set_partial_values: it returns Unimplemented("set_partial_values") and
\* leaves the store as it was.
C18_HoldsForSetPartialValues == [][C18_SetPartialValuesStep]_vars

(***************************************************************************)
(* C19: array-first sniffing against dispatch on node_type.                *)
(***************************************************************************)
\* set of a metadata payload by dispatch on its node_type after one permissive
\* parse: "array" is read as array metadata, "group" as group metadata, and a
\* payload that does not read as its kind is BadMetadata
SetByNodeType(ds, key, value) ==
    LET k == KeyParse(key)
    IN  IF ~k.ok THEN StoreErr(ds, k.err)
        ELSE IF ~(value.json /\ HasEnvelopeFields(value.doc)) THEN StoreErr(ds, BadMetadata)
        ELSE IF value.doc["node_type"] = JStr("array")
        THEN IF DeserializeArrayMetadata(value).ok
             THEN set_array_meta(ds, k.key.node_path, DeserializeArrayMetadata(value).v)
             ELSE StoreErr(ds, BadMetadata)
        ELSE IF value.doc["node_type"] = JStr("group")
        THEN set_group_meta(ds, k.key.node_path, DeserializeGroupMetadata(value).v)
        ELSE StoreErr(ds, BadMetadata)

\* C19: a successful set of a metadata payload leaves at the path a node of the kind
\* the payload's node_type names: an array for "array", never a group, and a group
\* for "group", never an array, as dispatch on node_type would.
C19_SniffingFollowsNodeType ==
    (last.op = "set" /\ last.ok /\ IsMetadataKey(last.key))
        => /\ NodePathOf(last.key) \in DOMAIN nodes
           /\ nodes[NodePathOf(last.key)].node_data.kind
                  = IF last.value.doc["node_type"] = JStr("array") THEN "Array" ELSE "Group"

\* C19 for the payloads that are valid metadata of the kind they name, and for bytes
\* that are not JSON: the two schemes agree on the store they leave and on the
\* error.
C19_HoldsForValidPayloads ==
    \A key \in MetadataKeys :
        \A value \in ValidGroupPayloads \cup ValidArrayPayloads \cup ChunkPayloads :
            StoreSet(Dataset, key, value) = SetByNodeType(Dataset, key, value)

(***************************************************************************)
(* C21: a set or delete that returns an error leaves the store as it was.  *)
(***************************************************************************)
C21_FailedMutationStep ==
    (last'.op \in {"set", "delete"} /\ ~last'.ok)
        => /\ last'.err.kind \in {"InvalidKey", "BadMetadata", "NotFound", "CannotUpdate"}
           /\ UNCHANGED <<nodes, chunks, storage>>

Key_ab_meta == <<"a", "b">> \o METADATA_SUFFIX

Prefix_ab == <<"a", "b", "/">>

\* "z/": no node is named "z", and "zarr.json" starts with "z"
Prefix_z == <<"z", "/">>

DirSetInputs ==
    {<<ROOT_KEY, JsonBytes(DocGroup)>>, <<Key_a_meta, JsonBytes(DocGroup)>>,
     <<Key_a_meta, JsonBytes(DocArrayPlain)>>, <<Key_ab_meta, JsonBytes(DocGroup)>>,
     <<Key_a_chunk_0, SmallBytes>>}

DirKeys == {ROOT_KEY, Key_a_meta, Key_ab_meta, Key_a_chunk_0}

DirPrefixes == {Str_slash, Prefix_a, Prefix_ab, Prefix_a_c, Prefix_zarr_json, Prefix_z}

DirSetStep == \E input \in DirSetInputs : Set(input[1], input[2])

DirDeleteStep == \E key \in DirKeys : Delete(key)

DirListDirStep == \E prefix \in DirPrefixes : ListDir(prefix)

DirNext == DirSetStep \/ DirDeleteStep \/ DirListDirStep

DirSpec == Init /\ [][DirNext]_vars

\* the text a child's key starts with: the prefix, and nothing for the root "/"
DirBase(prefix) == IF prefix = Str_slash THEN <<>> ELSE prefix

\* some stored key is prefix + name, or starts with prefix + name + "/"
IsImmediateChild(prefix, name) ==
    \E key \in StoredKeys :
        \/ key = DirBase(prefix) \o name
        \/ StartsWith(key, DirBase(prefix) \o name \o Str_slash)

\* C22: in every reachable store and for every prefix p that ends with '/',
\* list_dir(p) completes without a panic, and every name it yields is non-empty and
\* an immediate child of p: some stored key is p + name or starts with
\* p + name + "/".  A key that shares p's text without the slash yields no name.
C22_ListDirYieldsImmediateChildren ==
    \A node_order \in list_nodes(Dataset), chunk_order \in all_chunks(Dataset) :
        \A prefix \in DirPrefixes :
            LET dir == StoreListDir(Dataset, prefix, node_order, chunk_order)
            IN  /\ dir.ok
                /\ \A name \in dir.val : name # <<>> /\ IsImmediateChild(prefix, name)

\* C22 short of the panic: no list_dir yields the empty name (refuted by
\* list_dir("a/") in a store with the node "/ab").
C22_NoEmptyName ==
    (last.op = "list_dir" /\ last.ok) => \A i \in 1..Len(last.val) : last.val[i] # <<>>

\* C22 where every key that list_prefix(p) lists starts with p, slash included (or
\* p is "/"): there list_dir completes and yields immediate children only.
C22_HoldsWhereListedKeysStartWithPrefix ==
    \A node_order \in list_nodes(Dataset), chunk_order \in all_chunks(Dataset) :
        \A prefix \in DirPrefixes :
            LET listed == StoreListPrefix(Dataset, prefix, node_order, chunk_order)
                dir == StoreListDir(Dataset, prefix, node_order, chunk_order)
            IN  (\A i \in 1..Len(listed.val) : StartsWith(listed.val[i], DirBase(prefix)))
                    => /\ dir.ok
                       /\ \A name \in dir.val :
                              name # <<>> /\ IsImmediateChild(prefix, name)

(***************************************************************************)
(* C23: the read operations, issued one after the other by a caller that   *)
(* awaits each of them, over the stores that set and delete build.  The    *)
(* executor runs every task of get_partial_values.                         *)
(***************************************************************************)
ReadSetInputs ==
    {<<ROOT_KEY, JsonBytes(DocGroup)>>, <<ROOT_KEY, JsonBytes(DocArrayPlain)>>,
     <<Key_a_meta, JsonBytes(DocGroupAttrs)>>, <<Str_c, SmallBytes>>}

\* a metadata key, a chunk key, a key that does not parse
ReadKeys == {ROOT_KEY, Str_c, Key_a_foo}

\* "/", "a/", and "a", which is no prefix
ReadPrefixes == {Str_slash, Prefix_a, Str_a}

ReadRequests == {<<Str_c>>, <<ROOT_KEY, Key_a_foo>>}

ReadSetStep == Idle /\ \E input \in ReadSetInputs : Set(input[1], input[2])

ReadDeleteStep == Idle /\ \E key \in {ROOT_KEY, Key_a_meta, Str_c} : Delete(key)

ReadGetStep == Idle /\ \E key \in ReadKeys : Get(key)

ReadExistsStep == Idle /\ \E key \in ReadKeys : Exists(key)

ReadEmptyStep == Idle /\ Empty

ReadListStep == Idle /\ List

ReadListPrefixStep == Idle /\ \E prefix \in ReadPrefixes : ListPrefix(prefix)

ReadListDirStep == Idle /\ \E prefix \in ReadPrefixes : ListDir(prefix)

ReadSpawnTasksStep == \E requests \in ReadRequests : SpawnTasks(requests)

ReadNext ==
    \/ ReadSetStep \/ ReadDeleteStep
    \/ ReadGetStep \/ ReadExistsStep \/ ReadEmptyStep
    \/ ReadListStep \/ ReadListPrefixStep \/ ReadListDirStep
    \/ ReadSpawnTasksStep \/ TaskRunsStep \/ Await \/ Return

ReadSpec == Init /\ [][ReadNext]_vars

ReadOps == {"empty", "get", "get_partial_values", "exists", "list", "list_prefix", "list_dir"}

ListingOps == {"list", "list_prefix", "list_dir"}

\* two streams with the same items, each as often in one as in the other
SameItems(a, b) ==
    \A item \in {a[i] : i \in 1..Len(a)} \cup {b[i] : i \in 1..Len(b)} :
        Count(a, item) = Count(b, item)

\* the results of two calls of a read operation are the same: the same Ok or the
\* same error, and the same value; a listing's value is the keys it yields, whose
\* order the engine's iteration and the HashSet of list_dir leave open
SameResult(a, b) ==
    /\ a.ok = b.ok
    /\ a.err = b.err
    /\ IF a.op \in ListingOps THEN SameItems(a.val, b.val) ELSE a.val = b.val

C23_ReadStep ==
    /\ (batch' # batch \/ last'.op \in ReadOps) => UNCHANGED <<nodes, chunks, storage>>
    /\ (last'.op \in ReadOps /\ last.op = last'.op /\ last.key = last'.key)
           => SameResult(last, last')

C23_WitnessListing ==
    /\ last.op = "list_dir" /\ last.ok /\ Len(last.val) >= 2
    /\ chunks # EmptyMap

\* C23 with a listing's result read as the sequence it streams: refuted by two
\* list_dir calls that give their names in different orders.
C23_ListingsRepeatInOrder ==
    [][(last'.op \in ListingOps /\ last.op = last'.op /\ last.key = last'.key)
          => last.val = last'.val]_vars

====
